---- MODULE Spec2Model ----
(***************************************************************************)
(* CommandFlow: the streaming audio segmentation and command-dispatch      *)
(* pipeline of cudaToText.py and voiceToText_whisper.py, with the window   *)
(* context probe of window_detection.py.                                   *)
(*                                                                         *)
(* Texts are sequences of one-character strings, so that lower(), strip()  *)
(* and the substring test `in` are computed as Python computes them.       *)
(***************************************************************************)
EXTENDS Integers, Sequences, FiniteSets, TLC

VARIABLES
    \* ---- cudaToText.py: the sound device, toggle_record, one AudioProcessor ----
    listening_event,    \* threading.Event: set while the app is listening
    proc_thread,        \* the recording thread: "none", "running" or "exited"
    delivered,          \* blocks audio_callback has put into audio_queue
    audio_queue,        \* AudioProcessor.audio_queue
    audio_buffer,       \* AudioProcessor.audio_buffer
    recording_active,   \* AudioProcessor.recording_active
    silence_count,      \* AudioProcessor.silence_count
    consumed,           \* history: the blocks process_audio took from the queue
    dispatched,         \* history: the utterances submitted, each with the
                        \* number of blocks consumed when it was submitted
    toggles,            \* how often the record button was pressed
    \* ---- cudaToText.py: executor and save_and_process_audio ----
    work_queue,         \* the work items the executor holds, oldest first
    running,            \* the work items its worker threads are executing
    submitted,          \* how many utterances were submitted
    processed,          \* history: the utterances save_and_process_audio finished
    waited,             \* history: the utterances submitted while every worker
                        \* was busy
    last_task,          \* what the save_and_process_audio call that finished
                        \* last did
    \* ---- voiceToText_whisper.py: the global, one AudioProcessor, its threads ----
    listening,          \* the global listening
    w_thread,           \* the recording thread: "none", "running" or "exited"
    w_delivered,        \* blocks the input stream has handed to audio_callback
    w_audio_buffer,     \* AudioProcessor.audio_buffer
    is_recording,       \* AudioProcessor.is_recording
    w_silence_count,    \* AudioProcessor.silence_count
    received,           \* history: the blocks received with listening on and
                        \* no status flag
    w_dispatched,       \* history: the utterances handed to a thread, each with
                        \* the number of blocks received when it was handed over
    threads,            \* the save_and_process_audio threads that are running
    w_started,          \* how many of them were started
    w_finished,         \* history: the utterances whose thread has ended
    w_last_task,        \* what the save_and_process_audio call that finished
                        \* last did
    \* ---- command interpreter / context probe called on one text ----
    cmd_in,             \* the inputs of the call under study
    cmd_out,            \* what the call did and returned ("none" before)
    \* ---- voiceToText.py: the globals, the button and the listeners started ----
    v_listening,        \* the global listening
    stop_listening,     \* the global stop_listening: 0 for None, or the number
                        \* of the listener whose stopper it holds
    record_button,      \* the text of record_button
    listeners,          \* the listeners listen_in_background started, each
                        \* "listening" or "stop_requested"
    v_log,              \* history: what each call of toggle_record did
    \* ---- apiModelTest.py: main ----
    conversation,       \* the list conversation
    chat_state,         \* "running", "exited" (break) or "crashed" (api_call raised)
    sent,               \* history: the message list of every api_call
    chat_inputs,        \* history: what input() returned, oldest first
    \* ---- window_detection.py: one WindowDetection in start_monitoring ----
    last_active_window, \* WindowDetection.last_active_window
    open_windows,       \* WindowDetection.open_windows
    mon_state,          \* "polling" or "stopped"
    polls,              \* history: what every poll saw and did
    callback_calls,     \* history: the arguments of every call of the callback
    \* ---- cudaToText.py: every AudioProcessor toggle_record created ----
    procs,              \* the AudioProcessors with their recording threads
    mic_blocks,         \* blocks the sound device has captured
    session_of,         \* history: the listening session each block was
                        \* captured in (0: listening was off)
    ov_dispatched       \* history: the utterances submitted, each with its
                        \* processor and the session it was submitted in

vadVars == <<listening_event, proc_thread, delivered, audio_queue, audio_buffer,
             recording_active, silence_count, consumed, dispatched, toggles>>
poolVars == <<work_queue, running, submitted, processed, waited, last_task>>
wVars == <<listening, w_thread, w_delivered, w_audio_buffer, is_recording,
           w_silence_count, received, w_dispatched, threads, w_started,
           w_finished, w_last_task>>
cmdVars == <<cmd_in, cmd_out>>
vtVars == <<v_listening, stop_listening, record_button, listeners, v_log>>
chatVars == <<conversation, chat_state, sent, chat_inputs>>
monVars == <<last_active_window, open_windows, mon_state, polls, callback_calls>>
ovVars == <<procs, mic_blocks, session_of, ov_dispatched>>
otherVars == <<vtVars, chatVars, monVars, ovVars>>
vars == <<vadVars, poolVars, wVars, cmdVars, otherVars>>

(***************************************************************************)
(* Bounds of the model                                                     *)
(***************************************************************************)
\* Texts are built from at most this many fragments.
MaxFrags == 2
\* Blocks the input stream delivers in the segmentation specifications.
MaxBlocks == 19
\* Speech blocks among them.
MaxSpeech == 3
\* Blocks waiting in audio_queue at any time.
MaxQueue == 2
\* Blocks the stream of voiceToText_whisper.py delivers with a status flag.
MaxFlagged == 1
\* Blocks the input stream delivers in the pipeline specifications
\* (five utterances of nine blocks).
MaxPoolBlocks == 45
\* Presses of the record button.
MaxToggles == 2
\* Blocks the input stream delivers in TaskSpec (two utterances).
MaxTaskBlocks == 18
\* Presses of the record button of voiceToText.py.
MaxPresses == 7
\* Inputs the user types in a session of apiModelTest.py.
MaxTurns == 3
\* Polls of start_monitoring.
MaxPolls == 3
\* Blocks the sound device captures in OverlapSpec.
MaxOvBlocks == 10
\* Presses of the record button in OverlapSpec.
MaxOvToggles == 3

(***************************************************************************)
(* Program constants                                                       *)
(***************************************************************************)
SILENCE_THRESHOLD == 500
MAX_SILENCE_CHUNKS == 8
max_workers == 4
W_SILENCE_THRESHOLD == 500
W_MAX_SILENCE_CHUNKS == 8

(***************************************************************************)
(* Strings                                                                 *)
(***************************************************************************)
UpperChars == <<"A","B","C","D","E","F","G","H","I","J","K","L","M","N","O","P","Q","R","S","T","U","V","W","X","Y","Z">>
LowerChars == <<"a","b","c","d","e","f","g","h","i","j","k","l","m","n","o","p","q","r","s","t","u","v","w","x","y","z">>

\* The characters str.strip() and str.split() treat as whitespace.
Whitespace == {" ", "\t", "\n"}

\* str.lower() on one character
LowerChar(c) ==
    IF \E i \in 1..Len(UpperChars) : UpperChars[i] = c
    THEN LowerChars[CHOOSE i \in 1..Len(UpperChars) : UpperChars[i] = c]
    ELSE c

\* str.lower()
Lower(s) == [i \in 1..Len(s) |-> LowerChar(s[i])]

\* str.strip(): leading and trailing whitespace removed
Strip(s) ==
    LET keep == {i \in 1..Len(s) : s[i] \notin Whitespace}
    IN  IF keep = {} THEN <<>>
        ELSE LET lo == CHOOSE i \in keep : \A j \in keep : i <= j
                 hi == CHOOSE i \in keep : \A j \in keep : j <= i
             IN  SubSeq(s, lo, hi)

\* Python's `sub in s` on strings
Contains(sub, s) ==
    \E i \in 0..(Len(s) - Len(sub)) : SubSeq(s, i + 1, i + Len(sub)) = sub

\* len(s.split()): the number of maximal runs of non-whitespace characters
WordCount(s) ==
    Cardinality({i \in 1..Len(s) :
                    /\ s[i] \notin Whitespace
                    /\ (i = 1 \/ s[i - 1] \in Whitespace)})

\* the phrases the code matches
p_move_mouse == <<"m","o","v","e"," ","m","o","u","s","e">>
p_move_the_mouse == <<"m","o","v","e"," ","t","h","e"," ","m","o","u","s","e">>
p_exit_window == <<"e","x","i","t"," ","w","i","n","d","o","w">>
p_close_window == <<"c","l","o","s","e"," ","w","i","n","d","o","w">>
p_top_right == <<"t","o","p"," ","r","i","g","h","t">>
p_thanks_for_watching == <<"t","h","a","n","k","s"," ","f","o","r"," ","w","a","t","c","h","i","n","g">>
p_youtube == <<"y","o","u","t","u","b","e">>
p_open == <<"o","p","e","n">>
p_launch == <<"l","a","u","n","c","h">>
p_start == <<"s","t","a","r","t">>

move_mouse_commands == {p_move_mouse, p_move_the_mouse}
exit_commands == {p_exit_window, p_close_window}

\* the fragments recognized texts are built from (mixed case, as Whisper writes)
f_space == <<" ">>
f_MoveMouse == <<"M","o","v","e"," ","M","o","u","s","e">>
f_CloseWindow == <<"C","l","o","s","e"," ","W","i","n","d","o","w">>
f_Thanks == <<"T","h","a","n","k","s"," ","f","o","r"," ","w","a","t","c","h","i","n","g">>
f_YouTube == <<"Y","o","u","T","u","b","e">>
f_x == <<"x">>

Fragments ==
    { f_space, f_MoveMouse, p_move_the_mouse, p_top_right, p_exit_window,
      f_CloseWindow, f_Thanks, f_YouTube, p_open, f_x }

RECURSIVE TextsOf(_)
TextsOf(n) ==
    IF n = 0 THEN { <<>> }
    ELSE LET shorter == TextsOf(n - 1)
         IN  shorter \cup { t \o f : t \in shorter, f \in Fragments }

\* every text the interpreter is tried on
Texts == TextsOf(MaxFrags)

(***************************************************************************)
(* The OS and the GUI as the interpreter sees them                         *)
(***************************************************************************)
\* pyautogui: imported and working, None (the import failed), or a call that
\* raises while simulating the input
PyAutoGui == {"available", "None", "raises"}

\* pyautogui.size()[0]
ScreenWidths == {800, 1920}

NoAction == <<"none">>
MoveTo(x, y) == <<"moveTo", x, y>>
HotkeyAltF4 == <<"hotkey", "alt", "f4">>

(***************************************************************************)
(* process_voice_command: what it schedules on the status label, the OS    *)
(* input action it completes, what it returns, whether an exception leaves *)
(* it.  The pyautogui call is the statement after the status_label.after   *)
(* call of each branch; it raises for "None" (AttributeError) and for      *)
(* "raises".                                                               *)
(***************************************************************************)
CommandErrorStatus == "Command error"

\* the except clause of process_voice_command: nothing escapes it
MutCmdOutcome(status, action, pg) ==
    IF pg = "available"
    THEN [ret |-> TRUE, action |-> action, status |-> <<status>>, raised |-> FALSE,
          propagated |-> FALSE]
    ELSE [ret |-> FALSE, action |-> NoAction, status |-> <<status>>, raised |-> TRUE,
          propagated |-> TRUE]

CmdOutcome(status, action, pg) ==
    IF pg = "available"
    THEN [ret |-> TRUE, action |-> action, status |-> <<status>>, raised |-> FALSE,
          propagated |-> FALSE]
    ELSE [ret |-> FALSE, action |-> NoAction,
          status |-> <<status, CommandErrorStatus>>, raised |-> TRUE,
          propagated |-> FALSE]

IsMoveMouse(command) == \E cmd \in move_mouse_commands : Contains(cmd, command)

IsExit(command) == \E cmd \in exit_commands : Contains(cmd, command)

\* the order of the two branches swapped
MutProcessVoiceCommand(text, pg, screen_width) ==
    LET command == Strip(Lower(text))
    IN  IF IsExit(command)
        THEN CmdOutcome("Exiting current window", HotkeyAltF4, pg)
        ELSE IF IsMoveMouse(command)
        THEN IF Contains(p_top_right, command)
             THEN CmdOutcome("Moving mouse to top right", MoveTo(screen_width - 1, 0), pg)
             ELSE CmdOutcome("Moving mouse to default icon position", MoveTo(200, 200), pg)
        ELSE [ret |-> FALSE, action |-> NoAction, status |-> <<>>, raised |-> FALSE,
              propagated |-> FALSE]

ProcessVoiceCommand(text, pg, screen_width) ==
    LET command == Strip(Lower(text))
    IN  IF IsMoveMouse(command)
        THEN IF Contains(p_top_right, command)
             THEN CmdOutcome("Moving mouse to top right", MoveTo(screen_width - 1, 0), pg)
             ELSE CmdOutcome("Moving mouse to default icon position", MoveTo(200, 200), pg)
        ELSE IF IsExit(command)
        THEN CmdOutcome("Exiting current window", HotkeyAltF4, pg)
        ELSE [ret |-> FALSE, action |-> NoAction, status |-> <<>>, raised |-> FALSE,
              propagated |-> FALSE]

(***************************************************************************)
(* window_detection.get_context_for_speech_command                         *)
(***************************************************************************)
\* snapshot["open_applications"] of get_window_snapshot, as lower-case names
a_vlc == <<"v","l","c">>
a_code == <<"c","o","d","e">>
Snapshots ==
    { [open_applications |-> apps] : apps \in {<<>>, <<a_code>>, <<a_code, a_vlc>>} }

video_apps ==
    { p_youtube, a_vlc, <<"m","e","d","i","a"," ","p","l","a","y","e","r">>,
      <<"n","e","t","f","l","i","x">>, <<"h","u","l","u">>, <<"v","i","d","e","o">> }

HasVideoApp(snapshot) ==
    \E i \in 1..Len(snapshot.open_applications) :
        \E v \in video_apps : Contains(v, Lower(snapshot.open_applications[i]))

\* flag only when no video application is open
MutGetContextForSpeechCommand(recognized_text, snapshot) ==
    LET text_lower == Strip(Lower(recognized_text))
    IN  IF /\ Contains(p_thanks_for_watching, text_lower)
           /\ ~Contains(p_youtube, text_lower)
           /\ ~HasVideoApp(snapshot)
        THEN [kind |-> "false_positive", likely_false_positive |-> TRUE,
              has_video_app_open |-> HasVideoApp(snapshot)]
        ELSE IF /\ \/ Contains(p_open, text_lower)
                   \/ Contains(p_launch, text_lower)
                   \/ Contains(p_start, text_lower)
                /\ WordCount(text_lower) >= 2
        THEN [kind |-> "open_application", likely_false_positive |-> FALSE,
              has_video_app_open |-> FALSE]
        ELSE [kind |-> "general", likely_false_positive |-> FALSE,
              has_video_app_open |-> FALSE]

\* likely_false_positive is what context.get("likely_false_positive") is taken
\* for: the key is present (True) in the first return only.
GetContextForSpeechCommand(recognized_text, snapshot) ==
    LET text_lower == Strip(Lower(recognized_text))
    IN  IF /\ Contains(p_thanks_for_watching, text_lower)
           /\ ~Contains(p_youtube, text_lower)
        THEN [kind |-> "false_positive", likely_false_positive |-> TRUE,
              has_video_app_open |-> HasVideoApp(snapshot)]
        ELSE IF /\ \/ Contains(p_open, text_lower)
                   \/ Contains(p_launch, text_lower)
                   \/ Contains(p_start, text_lower)
                /\ WordCount(text_lower) >= 2
        THEN [kind |-> "open_application", likely_false_positive |-> FALSE,
              has_video_app_open |-> FALSE]
        ELSE [kind |-> "general", likely_false_positive |-> FALSE,
              has_video_app_open |-> FALSE]

(***************************************************************************)
(* Audio blocks.  A block is the array of int16 samples of one callback;   *)
(* each sample carries the number of the block it came in, so that an      *)
(* utterance can be compared with the blocks it was cut from.              *)
(***************************************************************************)
\* the peak samples the stream delivers: a block at the threshold (negative,
\* so that the absolute value matters) and a block just above it
SilentPeak == 0 - SILENCE_THRESHOLD
SpeechPeak == SILENCE_THRESHOLD + 1
BlockPeaks == {SilentPeak, SpeechPeak}

\* indata.copy().flatten(): the samples of block n, here two of them (for the
\* CHUNK of the code), the second one its peak
BlockOf(n, peak) == << [blk |-> n, v |-> 0], [blk |-> n, v |-> peak] >>

\* np.abs on an int16 sample: the absolute value, computed in 16 bits
Abs16(v) == IF v = -32768 THEN -32768 ELSE IF v < 0 THEN 0 - v ELSE v

\* np.max(np.abs(current_audio))
Energy(block) ==
    LET mags == {Abs16(block[i].v) : i \in 1..Len(block)}
    IN  CHOOSE m \in mags : \A k \in mags : k <= m

\* the comparison at "if energy > self.energy_threshold"
IsSpeechBlock(block) == Energy(block) > SILENCE_THRESHOLD

\* np.concatenate(self.audio_buffer)
RECURSIVE Concatenate(_)
Concatenate(buf) ==
    IF buf = <<>> THEN <<>> ELSE Head(buf) \o Concatenate(Tail(buf))

(***************************************************************************)
(* cudaToText.py: AudioProcessor                                           *)
(***************************************************************************)
\* AudioProcessor.__init__
NewAudioProcessor ==
    /\ audio_queue' = <<>>
    /\ audio_buffer' = <<>>
    /\ recording_active' = FALSE
    /\ silence_count' = 0
    /\ consumed' = <<>>
    /\ dispatched' = <<>>

\* AudioProcessor.audio_callback: the stream hands over one block; the callback
\* queues it while listening_event is set and drops it otherwise
AudioCallback(peak, maxBlocks) ==
    /\ proc_thread = "running"
    /\ delivered < maxBlocks
    /\ Len(audio_queue) < MaxQueue
    /\ delivered' = IF listening_event THEN delivered + 1 ELSE delivered
    /\ audio_queue' = IF listening_event
                      THEN Append(audio_queue, BlockOf(delivered + 1, peak))
                      ELSE audio_queue
    /\ UNCHANGED <<listening_event, proc_thread, audio_buffer, recording_active,
                   silence_count, consumed, dispatched, toggles, poolVars>>

\* the state of the detector after one block: what the body of the loop of
\* process_audio does to audio_buffer, recording_active and silence_count, and
\* the utterance it submits (<<>> when it submits none)
MutVadStep(buffer, recording, silence, block) ==
    IF IsSpeechBlock(block)
    THEN [buffer |-> IF recording THEN buffer ELSE Append(buffer, block),
          recording |-> TRUE,
          silence |-> IF recording THEN silence ELSE 0,
          submit |-> <<>>]
    ELSE IF recording
    THEN IF silence + 1 >= MAX_SILENCE_CHUNKS
         THEN [buffer |-> <<>>, recording |-> FALSE, silence |-> 0,
               submit |-> Concatenate(Append(buffer, block))]
         ELSE [buffer |-> Append(buffer, block), recording |-> TRUE,
               silence |-> silence + 1, submit |-> <<>>]
    ELSE [buffer |-> buffer, recording |-> recording, silence |-> silence,
          submit |-> <<>>]

\* a detector that keeps the silent blocks it sees while not recording
MutVadStepKeepsSilence(buffer, recording, silence, block) ==
    IF IsSpeechBlock(block)
    THEN [buffer |-> Append(buffer, block),
          recording |-> TRUE,
          silence |-> IF recording THEN silence ELSE 0,
          submit |-> <<>>]
    ELSE IF recording
    THEN IF silence + 1 >= MAX_SILENCE_CHUNKS
         THEN [buffer |-> <<>>, recording |-> FALSE, silence |-> 0,
               submit |-> Concatenate(Append(buffer, block))]
         ELSE [buffer |-> Append(buffer, block), recording |-> TRUE,
               silence |-> silence + 1, submit |-> <<>>]
    ELSE [buffer |-> Append(buffer, block), recording |-> recording,
          silence |-> silence, submit |-> <<>>]

VadStep(buffer, recording, silence, block) ==
    IF IsSpeechBlock(block)
    THEN [buffer |-> Append(buffer, block),
          recording |-> TRUE,
          silence |-> IF recording THEN silence ELSE 0,
          submit |-> <<>>]
    ELSE IF recording
    THEN IF silence + 1 >= MAX_SILENCE_CHUNKS
         THEN [buffer |-> <<>>, recording |-> FALSE, silence |-> 0,
               submit |-> Concatenate(Append(buffer, block))]
         ELSE [buffer |-> Append(buffer, block), recording |-> TRUE,
               silence |-> silence + 1, submit |-> <<>>]
    ELSE [buffer |-> buffer, recording |-> recording, silence |-> silence,
          submit |-> <<>>]

\* an executor that turns a work item away while every worker is busy
MutExecutorSubmit(audio) ==
    /\ work_queue' = IF Cardinality(running) >= max_workers
                     THEN work_queue
                     ELSE Append(work_queue, [id |-> submitted + 1, audio |-> audio])
    /\ submitted' = submitted + 1
    /\ waited' = IF Cardinality(running) >= max_workers
                 THEN waited \cup {submitted + 1}
                 ELSE waited

\* executor.submit(save_and_process_audio, complete_audio): the work item joins
\* the executor's queue
ExecutorSubmit(audio) ==
    /\ work_queue' = Append(work_queue, [id |-> submitted + 1, audio |-> audio])
    /\ submitted' = submitted + 1
    /\ waited' = IF Cardinality(running) >= max_workers
                 THEN waited \cup {submitted + 1}
                 ELSE waited

\* one iteration of the loop of process_audio that gets a block from the queue
\* (an iteration whose get times out changes nothing)
ProcessAudioStep ==
    /\ proc_thread = "running"
    /\ listening_event
    /\ audio_queue # <<>>
    /\ LET current_audio == Head(audio_queue)
           r == VadStep(audio_buffer, recording_active, silence_count, current_audio)
       IN  /\ audio_queue' = Tail(audio_queue)
           /\ consumed' = Append(consumed, current_audio)
           /\ audio_buffer' = r.buffer
           /\ recording_active' = r.recording
           /\ silence_count' = r.silence
           /\ IF r.submit # <<>>
              THEN /\ dispatched' =
                         Append(dispatched,
                                [audio |-> r.submit, trigger |-> Len(consumed) + 1])
                   /\ ExecutorSubmit(r.submit)
              ELSE UNCHANGED <<dispatched, work_queue, submitted, waited>>
    /\ UNCHANGED <<listening_event, proc_thread, delivered, toggles, running,
                   processed, last_task>>

(***************************************************************************)
(* voiceToText_whisper.py: AudioProcessor                                  *)
(***************************************************************************)
\* the comparison at "if current_energy > self.energy_threshold"
WIsSpeechBlock(block) == Energy(block) > W_SILENCE_THRESHOLD

\* the detector of audio_callback after one block: audio_buffer, is_recording,
\* silence_count and the utterance handed to a thread (<<>> when none is)
WVadStep(buffer, recording, silence, block) ==
    IF WIsSpeechBlock(block)
    THEN IF ~recording
         THEN [buffer |-> Append(buffer, block), recording |-> TRUE, silence |-> 0,
               submit |-> <<>>]
         ELSE [buffer |-> buffer, recording |-> recording, silence |-> silence,
               submit |-> <<>>]
    ELSE IF recording
    THEN IF silence + 1 >= W_MAX_SILENCE_CHUNKS
         THEN [buffer |-> <<>>, recording |-> FALSE, silence |-> 0,
               submit |-> IF Len(Append(buffer, block)) > 0
                          THEN Concatenate(Append(buffer, block))
                          ELSE <<>>]
         ELSE [buffer |-> Append(buffer, block), recording |-> TRUE,
               silence |-> silence + 1, submit |-> <<>>]
    ELSE [buffer |-> buffer, recording |-> recording, silence |-> silence,
          submit |-> <<>>]

\* a hand-over that starts no thread while max_workers of them are running
MutStartThread(audio) ==
    IF Cardinality(threads) >= max_workers
    THEN UNCHANGED <<threads, w_started>>
    ELSE /\ threads' = threads \cup {[id |-> w_started + 1, audio |-> audio]}
         /\ w_started' = w_started + 1

\* threading.Thread(target=save_and_process_audio, args=(complete_audio,)).start()
StartThread(audio) ==
    /\ threads' = threads \cup {[id |-> w_started + 1, audio |-> audio]}
    /\ w_started' = w_started + 1

\* audio_callback of process_audio: the stream hands over one block
WAudioCallback(peak, status, maxBlocks) ==
    /\ w_thread = "running"
    /\ w_delivered < maxBlocks
    /\ w_delivered' = w_delivered + 1
    /\ IF ~status /\ listening
       THEN LET current_audio == BlockOf(w_delivered + 1, peak)
                r == WVadStep(w_audio_buffer, is_recording, w_silence_count, current_audio)
            IN  /\ received' = Append(received, current_audio)
                /\ w_audio_buffer' = r.buffer
                /\ is_recording' = r.recording
                /\ w_silence_count' = r.silence
                /\ IF r.submit # <<>>
                   THEN /\ StartThread(r.submit)
                        /\ w_dispatched' =
                              Append(w_dispatched,
                                     [audio |-> r.submit, trigger |-> Len(received) + 1])
                   ELSE UNCHANGED <<threads, w_started, w_dispatched>>
       ELSE UNCHANGED <<received, w_audio_buffer, is_recording, w_silence_count,
                        threads, w_started, w_dispatched>>
    /\ UNCHANGED <<listening, w_thread, w_finished, w_last_task>>

(***************************************************************************)
(* WVadSpec: one AudioProcessor of voiceToText_whisper.py while listening  *)
(* is on; the stream delivers any sequence of silent and speech blocks,    *)
(* some with a status flag                                                 *)
(***************************************************************************)
PoolIdle ==
    /\ work_queue = <<>>
    /\ running = {}
    /\ submitted = 0
    /\ processed = {}
    /\ waited = {}
    /\ last_task = [id |-> 0]

WhisperIdle ==
    /\ listening = FALSE
    /\ w_thread = "none"
    /\ w_delivered = 0
    /\ w_audio_buffer = <<>>
    /\ is_recording = FALSE
    /\ w_silence_count = 0
    /\ received = <<>>
    /\ w_dispatched = <<>>
    /\ threads = {}
    /\ w_started = 0
    /\ w_finished = {}
    /\ w_last_task = [id |-> 0]

CudaIdle ==
    /\ listening_event = FALSE
    /\ proc_thread = "none"
    /\ delivered = 0
    /\ audio_queue = <<>>
    /\ audio_buffer = <<>>
    /\ recording_active = FALSE
    /\ silence_count = 0
    /\ consumed = <<>>
    /\ dispatched = <<>>
    /\ toggles = 0
    /\ PoolIdle

CmdIdle ==
    /\ cmd_in = [text |-> <<>>]
    /\ cmd_out = [fn |-> "none"]

\* voiceToText.py at program start
VtIdle ==
    /\ v_listening = FALSE
    /\ stop_listening = 0
    /\ record_button = "Record"
    /\ listeners = <<>>
    /\ v_log = <<>>

\* apiModelTest.py when main has built the conversation
ChatIdle ==
    /\ conversation = << [role |-> "system", content |-> "prompt"] >>
    /\ chat_state = "running"
    /\ sent = <<>>
    /\ chat_inputs = <<>>

\* None, as the value of last_active_window
NoWindow == [none |-> TRUE]

\* WindowDetection.__init__
MonIdle ==
    /\ last_active_window = NoWindow
    /\ open_windows = <<>>
    /\ mon_state = "polling"
    /\ polls = <<>>
    /\ callback_calls = <<>>

\* no AudioProcessor was created yet
OvIdle ==
    /\ procs = <<>>
    /\ mic_blocks = 0
    /\ session_of = <<>>
    /\ ov_dispatched = <<>>

\* the programs a specification does not follow stay as they start
OthersIdle == VtIdle /\ ChatIdle /\ MonIdle /\ OvIdle

\* the state toggle_record leaves when it has started the recording thread and
\* the input stream is open
InitWVad ==
    /\ listening = TRUE
    /\ w_thread = "running"
    /\ w_delivered = 0
    /\ w_audio_buffer = <<>>
    /\ is_recording = FALSE
    /\ w_silence_count = 0
    /\ received = <<>>
    /\ w_dispatched = <<>>
    /\ threads = {}
    /\ w_started = 0
    /\ w_finished = {}
    /\ w_last_task = [id |-> 0]
    /\ CudaIdle
    /\ CmdIdle
    /\ OthersIdle

WSpeechReceived == Cardinality({i \in 1..Len(received) : WIsSpeechBlock(received[i])})

WStreamDelivers ==
    \E peak \in BlockPeaks, status \in BOOLEAN :
        /\ (peak = SpeechPeak /\ ~status) => WSpeechReceived < MaxSpeech
        /\ status => (peak = SilentPeak /\ w_delivered - Len(received) < MaxFlagged)
        /\ WAudioCallback(peak, status, MaxBlocks)

NextWVad == WStreamDelivers /\ UNCHANGED <<vadVars, poolVars, cmdVars, otherVars>>

WVadSpec == InitWVad /\ [][NextWVad]_vars

(***************************************************************************)
(* VadSpec: one AudioProcessor of cudaToText.py while listening is on;     *)
(* the stream delivers any sequence of silent and speech blocks            *)
(***************************************************************************)
\* the state toggle_record leaves when it has started the recording thread and
\* the input stream is open
InitVad ==
    /\ listening_event = TRUE
    /\ proc_thread = "running"
    /\ delivered = 0
    /\ audio_queue = <<>>
    /\ audio_buffer = <<>>
    /\ recording_active = FALSE
    /\ silence_count = 0
    /\ consumed = <<>>
    /\ dispatched = <<>>
    /\ toggles = 1
    /\ PoolIdle
    /\ WhisperIdle
    /\ CmdIdle
    /\ OthersIdle

\* the speech blocks this AudioProcessor was handed so far
SpeechHandedOver ==
    Cardinality({i \in 1..Len(consumed) : IsSpeechBlock(consumed[i])})
    + Cardinality({i \in 1..Len(audio_queue) : IsSpeechBlock(audio_queue[i])})

StreamDelivers ==
    \E peak \in BlockPeaks :
        /\ peak = SpeechPeak => SpeechHandedOver < MaxSpeech
        /\ AudioCallback(peak, MaxBlocks)

NextVad ==
    \/ StreamDelivers /\ UNCHANGED <<wVars, cmdVars, otherVars>>
    \/ ProcessAudioStep /\ UNCHANGED <<wVars, cmdVars, otherVars>>

VadSpec == InitVad /\ [][NextVad]_vars

(***************************************************************************)
(* SegSpec: the segmentation of either program: one AudioProcessor of      *)
(* cudaToText.py or one of voiceToText_whisper.py while listening is on    *)
(* and the stream reports no status                                        *)
(***************************************************************************)
InitSeg == InitVad \/ InitWVad

\* the stream of voiceToText_whisper.py delivers a block without a status flag
WSegDelivers ==
    \E peak \in BlockPeaks :
        /\ peak = SpeechPeak => WSpeechReceived < MaxSpeech
        /\ WAudioCallback(peak, FALSE, MaxBlocks)

NextSeg ==
    \/ StreamDelivers /\ UNCHANGED <<wVars, cmdVars, otherVars>>
    \/ ProcessAudioStep /\ UNCHANGED <<wVars, cmdVars, otherVars>>
    \/ WSegDelivers /\ UNCHANGED <<vadVars, poolVars, cmdVars, otherVars>>

SegSpec == InitSeg /\ [][NextSeg]_vars

(***************************************************************************)
(* cudaToText.py: save_and_process_audio                                   *)
(***************************************************************************)
\* what the world does to one call: writing the WAV file fails, transcribing
\* raises, or the model returns a text, with pyautogui and the windows as the
\* call finds them
Outcome(kind, text, pg, screen_width, snapshot) ==
    [kind |-> kind, text |-> text, pg |-> pg, screen_width |-> screen_width,
     snapshot |-> snapshot]

FailureOutcomes ==
    { Outcome(k, <<>>, "available", 800, [open_applications |-> <<>>]) :
        k \in {"write_fails", "transcribe_fails"} }

\* the texts the speech model returns in the pipeline specifications
TranscribedTexts ==
    TextsOf(1) \cup { f_space \o f_space, f_space \o f_MoveMouse \o f_space,
                      f_Thanks \o f_YouTube, p_open \o f_space \o f_Thanks }

TextOutcomes ==
    { Outcome("text", t, pg, w, sn) :
        t \in TranscribedTexts, pg \in PyAutoGui, w \in ScreenWidths, sn \in Snapshots }

TaskOutcomes == FailureOutcomes \cup TextOutcomes

NoCommand ==
    [ret |-> FALSE, action |-> NoAction, status |-> <<>>, raised |-> FALSE,
     propagated |-> FALSE]

\* the test that decides whether the text goes to process_voice_command
MutForwards(text, snapshot) == Strip(text) # <<>>

Forwards(text, snapshot) ==
    /\ Strip(text) # <<>>
    /\ ~GetContextForSpeechCommand(text, snapshot).likely_false_positive

\* one call of save_and_process_audio, from the try to the end of the function:
\* what it shows in text_input, whether it called process_voice_command and
\* what that did, and whether the temporary file is still there
SaveAndProcessAudio(task, o) ==
    IF o.kind # "text"
    THEN [id |-> task.id, kind |-> "error", text |-> <<>>,
          text_input |-> "Processing error", forwarded |-> FALSE,
          cmd |-> NoCommand, temp_file |-> "left"]
    ELSE IF Strip(o.text) = <<>>
    THEN [id |-> task.id, kind |-> "no_speech", text |-> o.text,
          text_input |-> "No speech detected", forwarded |-> FALSE,
          cmd |-> NoCommand, temp_file |-> "removed"]
    ELSE IF Forwards(o.text, o.snapshot)
    THEN [id |-> task.id, kind |-> "command", text |-> o.text,
          text_input |-> "text", forwarded |-> TRUE,
          cmd |-> ProcessVoiceCommand(o.text, o.pg, o.screen_width),
          temp_file |-> "removed"]
    ELSE [id |-> task.id, kind |-> "ignored", text |-> o.text,
          text_input |-> "text", forwarded |-> FALSE,
          cmd |-> NoCommand, temp_file |-> "removed"]

(***************************************************************************)
(* cudaToText.py: the widget updates of one save_and_process_audio call    *)
(***************************************************************************)
\* how a thread that is not the GUI main thread changes a widget: it calls the
\* widget's method itself, or it hands the change to the main thread with
\* widget.after(0, ...)
Direct(widget, text) == [widget |-> widget, text |-> text, via_after |-> FALSE]
After(widget, text) == [widget |-> widget, text |-> text, via_after |-> TRUE]

\* the widget updates the worker thread makes in one call: text_input.delete
\* and text_input.insert on every path, and the status_label.after calls of
\* process_voice_command
WidgetUpdates(result) ==
    {Direct("text_input", result.text_input)}
        \cup { After("status_label", result.cmd.status[i]) :
                 i \in 1..Len(result.cmd.status) }

(***************************************************************************)
(* cudaToText.py: ThreadPoolExecutor(max_workers=4)                        *)
(***************************************************************************)
\* a worker thread may take the next work item: the executor starts a thread
\* per submitted item until it has max_workers of them, and each thread runs
\* one item at a time
MutWorkerAvailable == TRUE

WorkerAvailable == Cardinality(running) < max_workers

\* a worker thread takes the oldest work item and calls save_and_process_audio
StartTask ==
    /\ work_queue # <<>>
    /\ WorkerAvailable
    /\ running' = running \cup {Head(work_queue)}
    /\ work_queue' = Tail(work_queue)
    /\ UNCHANGED <<vadVars, submitted, processed, waited, last_task>>

\* save_and_process_audio runs to its end in a worker thread
FinishTask(outcomes) ==
    \E task \in running, o \in outcomes :
        /\ running' = running \ {task}
        /\ processed' = processed \cup {task.id}
        /\ last_task' = SaveAndProcessAudio(task, o)
        /\ UNCHANGED <<vadVars, work_queue, submitted, waited>>

(***************************************************************************)
(* cudaToText.py: toggle_record and the recording thread                   *)
(***************************************************************************)
\* the record button: start listening with a new AudioProcessor and a new
\* recording thread, or stop listening.  The model follows one AudioProcessor
\* at a time: the button starts a new one when the thread of the one before
\* has ended.
ToggleRecord(maxToggles) ==
    /\ toggles < maxToggles
    /\ toggles' = toggles + 1
    /\ IF ~listening_event
       THEN /\ proc_thread \in {"none", "exited"}
            /\ listening_event' = TRUE
            /\ NewAudioProcessor
            /\ proc_thread' = "starting"
            /\ UNCHANGED delivered
       ELSE /\ listening_event' = FALSE
            /\ UNCHANGED <<proc_thread, delivered, audio_queue, audio_buffer,
                           recording_active, silence_count, consumed, dispatched>>
    /\ UNCHANGED poolVars

\* process_audio opens the input stream; when that raises, the except clause
\* reports a recording error and the thread ends
OpenStream(ok) ==
    /\ proc_thread = "starting"
    /\ proc_thread' = IF ok THEN "running" ELSE "exited"
    /\ UNCHANGED <<listening_event, delivered, audio_queue, audio_buffer,
                   recording_active, silence_count, consumed, dispatched, toggles,
                   poolVars>>

\* the loop of process_audio finds listening_event cleared: the stream is closed
\* and the thread ends
LoopExit ==
    /\ proc_thread = "running"
    /\ ~listening_event
    /\ proc_thread' = "exited"
    /\ UNCHANGED <<listening_event, delivered, audio_queue, audio_buffer,
                   recording_active, silence_count, consumed, dispatched, toggles,
                   poolVars>>

(***************************************************************************)
(* PoolSpec: the whole pipeline of cudaToText.py from program start.  The  *)
(* speaker says one short utterance after the other: every block that      *)
(* follows MAX_SILENCE_CHUNKS silent ones is speech.                       *)
(***************************************************************************)
\* the peak of the n-th block the stream delivers
SpokenPeak(n) == IF n % (MAX_SILENCE_CHUNKS + 1) = 1 THEN SpeechPeak ELSE SilentPeak

InitPool == CudaIdle /\ WhisperIdle /\ CmdIdle /\ OthersIdle

\* in PoolSpec the model returns a command or nothing, or transcribing fails
PoolOutcomes ==
    { Outcome("transcribe_fails", <<>>, "available", 800, [open_applications |-> <<>>]),
      Outcome("text", f_MoveMouse, "available", 800, [open_applications |-> <<>>]) }

PressButton == ToggleRecord(MaxToggles)
StreamOpens == \E ok \in BOOLEAN : OpenStream(ok)
SpeakerTalks == AudioCallback(SpokenPeak(delivered + 1), MaxPoolBlocks)
WorkerFinishes == FinishTask(PoolOutcomes)

NextPool ==
    \/ PressButton /\ UNCHANGED <<wVars, cmdVars, otherVars>>
    \/ StreamOpens /\ UNCHANGED <<wVars, cmdVars, otherVars>>
    \/ LoopExit /\ UNCHANGED <<wVars, cmdVars, otherVars>>
    \/ SpeakerTalks /\ UNCHANGED <<wVars, cmdVars, otherVars>>
    \/ ProcessAudioStep /\ UNCHANGED <<wVars, cmdVars, otherVars>>
    \/ StartTask /\ UNCHANGED <<wVars, cmdVars, otherVars>>
    \/ WorkerFinishes /\ UNCHANGED <<wVars, cmdVars, otherVars>>

PoolSpec == InitPool /\ [][NextPool]_vars

\* the scheduler lets a worker thread that can take or finish a work item do so
PoolFairness ==
    /\ WF_vars(StartTask /\ UNCHANGED <<wVars, cmdVars, otherVars>>)
    /\ WF_vars(WorkerFinishes /\ UNCHANGED <<wVars, cmdVars, otherVars>>)

FairPoolSpec == InitPool /\ [][NextPool]_vars /\ PoolFairness

(***************************************************************************)
(* TaskSpec: the pipeline of cudaToText.py for two utterances, with every  *)
(* outcome of save_and_process_audio                                       *)
(***************************************************************************)
TaskSpeakerTalks == AudioCallback(SpokenPeak(delivered + 1), MaxTaskBlocks)
TaskWorkerFinishes == FinishTask(TaskOutcomes)

NextTask ==
    \/ PressButton /\ UNCHANGED <<wVars, cmdVars, otherVars>>
    \/ StreamOpens /\ UNCHANGED <<wVars, cmdVars, otherVars>>
    \/ LoopExit /\ UNCHANGED <<wVars, cmdVars, otherVars>>
    \/ TaskSpeakerTalks /\ UNCHANGED <<wVars, cmdVars, otherVars>>
    \/ ProcessAudioStep /\ UNCHANGED <<wVars, cmdVars, otherVars>>
    \/ StartTask /\ UNCHANGED <<wVars, cmdVars, otherVars>>
    \/ TaskWorkerFinishes /\ UNCHANGED <<wVars, cmdVars, otherVars>>

TaskSpec == InitPool /\ [][NextTask]_vars

(***************************************************************************)
(* voiceToText_whisper.py: save_and_process_audio and its threads          *)
(***************************************************************************)
\* one call of save_and_process_audio: the status it schedules last, whether it
\* called process_voice_command and what that did, and whether the temporary
\* file is still there
WSaveAndProcessAudio(task, o) ==
    IF o.kind # "text"
    THEN [id |-> task.id, kind |-> "error", text |-> <<>>,
          status |-> "Processing error", forwarded |-> FALSE,
          cmd |-> NoCommand, temp_file |-> "left"]
    ELSE IF Strip(o.text) = <<>>
    THEN [id |-> task.id, kind |-> "no_speech", text |-> o.text,
          status |-> "No speech detected", forwarded |-> FALSE,
          cmd |-> NoCommand, temp_file |-> "removed"]
    ELSE LET c == ProcessVoiceCommand(o.text, o.pg, o.screen_width)
         IN  [id |-> task.id, kind |-> "command", text |-> o.text,
              status |-> IF c.ret THEN "command" ELSE "Command not recognized",
              forwarded |-> TRUE, cmd |-> c, temp_file |-> "removed"]

\* what status_label shows once the main thread has run the callbacks the call
\* scheduled with status_label.after(0, lambda: ...).  The lambda of the except
\* clause reads e, which Python unbinds when the except clause ends: run after
\* that, the lambda raises NameError and the label keeps the text it had; the
\* main thread runs it before or after the worker thread has left the clause.
StatusShown(result, e_bound) ==
    IF result.kind = "error" /\ ~e_bound THEN "unchanged" ELSE result.status

\* save_and_process_audio runs to its end in its thread, and the thread ends
WFinishThread(outcomes) ==
    \E task \in threads, o \in outcomes, e_bound \in BOOLEAN :
        /\ threads' = threads \ {task}
        /\ w_finished' = w_finished \cup {task.id}
        /\ w_last_task' =
              LET r == WSaveAndProcessAudio(task, o)
              IN  [id |-> r.id, kind |-> r.kind, text |-> r.text, status |-> r.status,
                   forwarded |-> r.forwarded, cmd |-> r.cmd, temp_file |-> r.temp_file,
                   shown |-> StatusShown(r, e_bound)]
        /\ UNCHANGED <<listening, w_thread, w_delivered, w_audio_buffer, is_recording,
                       w_silence_count, received, w_dispatched, w_started>>

(***************************************************************************)
(* WPoolSpec: voiceToText_whisper.py while listening is on, the speaker    *)
(* saying one short utterance after the other                              *)
(***************************************************************************)
WSpeakerTalks == WAudioCallback(SpokenPeak(w_delivered + 1), FALSE, MaxPoolBlocks)
WThreadFinishes == WFinishThread(PoolOutcomes)

NextWPool ==
    \/ WSpeakerTalks /\ UNCHANGED <<vadVars, poolVars, cmdVars, otherVars>>
    \/ WThreadFinishes /\ UNCHANGED <<vadVars, poolVars, cmdVars, otherVars>>

WPoolSpec == InitWVad /\ [][NextWPool]_vars

(***************************************************************************)
(* voiceToText.py (and Old Files/voiceToText.py): toggle_record            *)
(***************************************************************************)
\* what sr.Microphone() and recognizer.listen_in_background(mic, callback) can do
MicOutcomes == {"ok", "raises"}
ListenOutcomes == {"started", "raises"}

\* a toggle_record that sets the flag before it starts the listener
MutVToggleRecord(mic, listen) ==
    /\ Len(v_log) < MaxPresses
    /\ IF ~v_listening
       THEN /\ record_button' = "Stop Recording"
            /\ v_listening' = TRUE
            /\ IF mic = "ok" /\ listen = "started"
               THEN /\ listeners' = Append(listeners, "listening")
                    /\ stop_listening' = Len(listeners) + 1
                    /\ v_log' = Append(v_log, [before |-> v_listening, after |-> TRUE,
                                               did |-> "started"])
               ELSE /\ UNCHANGED <<stop_listening, listeners>>
                    /\ v_log' = Append(v_log, [before |-> v_listening, after |-> TRUE,
                                               did |-> IF mic = "ok" THEN "listen_raised" ELSE "mic_raised"])
       ELSE /\ listeners' = IF stop_listening # 0
                            THEN [listeners EXCEPT ![stop_listening] = "stop_requested"]
                            ELSE listeners
            /\ v_listening' = FALSE
            /\ record_button' = "Record"
            /\ v_log' = Append(v_log, [before |-> v_listening, after |-> FALSE,
                                       did |-> "stopped"])
            /\ UNCHANGED stop_listening

\* toggle_record, called by the button.  When sr.Microphone() or
\* listen_in_background raises, the exception leaves toggle_record after the
\* status label and the button text were changed.
VToggleRecord(mic, listen) ==
    /\ Len(v_log) < MaxPresses
    /\ IF ~v_listening
       THEN /\ record_button' = "Stop Recording"
            /\ IF mic = "ok" /\ listen = "started"
               THEN /\ listeners' = Append(listeners, "listening")
                    /\ stop_listening' = Len(listeners) + 1
                    /\ v_listening' = TRUE
                    /\ v_log' = Append(v_log, [before |-> v_listening, after |-> TRUE,
                                               did |-> "started"])
               ELSE /\ UNCHANGED <<v_listening, stop_listening, listeners>>
                    /\ v_log' = Append(v_log, [before |-> v_listening,
                                               after |-> v_listening,
                                               did |-> IF mic = "ok" THEN "listen_raised" ELSE "mic_raised"])
       ELSE /\ listeners' = IF stop_listening # 0
                            THEN [listeners EXCEPT ![stop_listening] = "stop_requested"]
                            ELSE listeners
            /\ v_listening' = FALSE
            /\ record_button' = "Record"
            /\ v_log' = Append(v_log, [before |-> v_listening, after |-> FALSE,
                                       did |-> "stopped"])
            /\ UNCHANGED stop_listening

InitVt == CudaIdle /\ WhisperIdle /\ CmdIdle /\ OthersIdle

VPressButton == \E mic \in MicOutcomes, listen \in ListenOutcomes : VToggleRecord(mic, listen)

NextVt ==
    VPressButton /\ UNCHANGED <<vadVars, poolVars, wVars, cmdVars, chatVars, monVars, ovVars>>

VtSpec == InitVt /\ [][NextVt]_vars

(***************************************************************************)
(* EnergySpec: the speech test of both programs applied to one block of    *)
(* signed 16-bit samples                                                   *)
(***************************************************************************)
\* int16 samples: both ends of the range, the threshold and its neighbours
Samples == {-32768, -32767, -501, -500, -499, 0, 499, 500, 501, 32767}

SampleBlocks == { << [blk |-> 1, v |-> a], [blk |-> 1, v |-> b] >> : a, b \in Samples }

InitEnergy ==
    /\ CudaIdle
    /\ WhisperIdle
    /\ cmd_in \in [block : SampleBlocks]
    /\ cmd_out = [fn |-> "none"]
    /\ OthersIdle

\* process_audio of cudaToText.py computing energy and comparing it
CudaClassifies ==
    /\ cmd_out.fn = "none"
    /\ cmd_out' = [fn |-> "cudaToText", energy |-> Energy(cmd_in.block),
                   speech |-> IsSpeechBlock(cmd_in.block)]
    /\ UNCHANGED <<cmd_in, vadVars, poolVars, wVars, otherVars>>

\* audio_callback / is_speech of voiceToText_whisper.py doing the same
WhisperClassifies ==
    /\ cmd_out.fn = "none"
    /\ cmd_out' = [fn |-> "voiceToText_whisper", energy |-> Energy(cmd_in.block),
                   speech |-> WIsSpeechBlock(cmd_in.block)]
    /\ UNCHANGED <<cmd_in, vadVars, poolVars, wVars, otherVars>>

NextEnergy == CudaClassifies \/ WhisperClassifies

EnergySpec == InitEnergy /\ [][NextEnergy]_vars

(***************************************************************************)
(* apiModelTest.py: main                                                   *)
(***************************************************************************)
t_exit == <<"e","x","i","t">>
t_EXIT_padded == <<" ","E","x","I","T","\n">>
t_exit_now == <<"e","x","i","t"," ","n","o","w">>
t_dir == <<"d","i","r">>

\* what input("User: ") returns
UserInputs == {t_exit, t_EXIT_padded, t_exit_now, t_dir, <<>>}

\* what api_call does: it returns the content of the reply, or raises
Replies == {"ls", "cd ..", "raises"}

\* a loop that compares the input itself with "exit"
MutChatTurn(user_input, reply) ==
    /\ chat_state = "running"
    /\ Len(chat_inputs) < MaxTurns
    /\ chat_inputs' = Append(chat_inputs, user_input)
    /\ IF user_input = t_exit
       THEN /\ chat_state' = "exited"
            /\ UNCHANGED <<conversation, sent>>
       ELSE LET asked == Append(conversation, [role |-> "user", content |-> user_input])
            IN  /\ sent' = Append(sent, asked)
                /\ IF reply = "raises"
                   THEN /\ conversation' = asked
                        /\ chat_state' = "crashed"
                   ELSE /\ conversation' =
                              Append(asked, [role |-> "assistant", content |-> reply])
                        /\ UNCHANGED chat_state

\* one iteration of the loop of main, from input() to the append of the reply;
\* an exception of api_call leaves main
ChatTurn(user_input, reply) ==
    /\ chat_state = "running"
    /\ Len(chat_inputs) < MaxTurns
    /\ chat_inputs' = Append(chat_inputs, user_input)
    /\ IF Lower(Strip(user_input)) = t_exit
       THEN /\ chat_state' = "exited"
            /\ UNCHANGED <<conversation, sent>>
       ELSE LET asked == Append(conversation, [role |-> "user", content |-> user_input])
            IN  /\ sent' = Append(sent, asked)
                /\ IF reply = "raises"
                   THEN /\ conversation' = asked
                        /\ chat_state' = "crashed"
                   ELSE /\ conversation' =
                              Append(asked, [role |-> "assistant", content |-> reply])
                        /\ UNCHANGED chat_state

InitChat == CudaIdle /\ WhisperIdle /\ CmdIdle /\ OthersIdle

UserTypes == \E user_input \in UserInputs, reply \in Replies : ChatTurn(user_input, reply)

NextChat ==
    UserTypes /\ UNCHANGED <<vadVars, poolVars, wVars, cmdVars, vtVars, monVars, ovVars>>

ChatSpec == InitChat /\ [][NextChat]_vars

(***************************************************************************)
(* window_detection.is_application_running and launch_application         *)
(***************************************************************************)
a_VLC == <<"V","L","C">>
a_spotify == <<"s","p","o","t","i","f","y">>
w_title_vlc == <<"f","i","l","m"," ","-"," ","v","l","c">>
w_title_main == <<"m","a","i","n",".","p","y">>

\* what detector.get_all_windows() returns: no window, an editor window, a
\* window whose title alone names the player, and the error entry
WindowLists ==
    { <<>>,
      << [title |-> w_title_main, app_name |-> a_code] >>,
      << [title |-> w_title_main, app_name |-> a_code],
         [title |-> w_title_vlc, app_name |-> <<>>] >>,
      << [title |-> <<>>, app_name |-> <<>>] >> }

\* snapshot["open_applications"]: the app_name of every window that has one
OpenApplications(all_windows) ==
    {all_windows[i].app_name : i \in {j \in 1..Len(all_windows) : all_windows[j].app_name # <<>>}}

\* is_application_running
IsApplicationRunning(app_name, all_windows) ==
    LET app_name_lower == Lower(app_name)
    IN  \/ \E app \in OpenApplications(all_windows) : Contains(app_name_lower, Lower(app))
        \/ \E i \in 1..Len(all_windows) :
              \/ Contains(app_name_lower, Lower(all_windows[i].title))
              \/ Contains(app_name_lower, Lower(all_windows[i].app_name))

OsTypes == {"Windows", "Darwin", "Linux", "FreeBSD"}
PopenOutcomes == {"started", "raises"}

\* launch_application: what it returns and whether it called subprocess.Popen
LaunchApplication(app_name, os_type, all_windows, popen) ==
    IF IsApplicationRunning(app_name, all_windows)
    THEN [ret |-> TRUE, popen_called |-> FALSE]
    ELSE IF os_type \in {"Windows", "Darwin", "Linux"}
    THEN [ret |-> popen = "started", popen_called |-> TRUE]
    ELSE [ret |-> FALSE, popen_called |-> FALSE]

InitLaunch ==
    /\ CudaIdle
    /\ WhisperIdle
    /\ cmd_in \in [app_name : {a_vlc, a_VLC, a_code, a_spotify}, os_type : OsTypes,
                   all_windows : WindowLists, popen : PopenOutcomes]
    /\ cmd_out = [fn |-> "none"]
    /\ OthersIdle

CallLaunchApplication ==
    /\ cmd_out.fn = "none"
    /\ cmd_out' = [fn |-> "launch_application",
                   result |-> LaunchApplication(cmd_in.app_name, cmd_in.os_type,
                                                cmd_in.all_windows, cmd_in.popen)]
    /\ UNCHANGED <<cmd_in, vadVars, poolVars, wVars, otherVars>>

CallIsApplicationRunning ==
    /\ cmd_out.fn = "none"
    /\ cmd_out' = [fn |-> "is_application_running",
                   result |-> IsApplicationRunning(cmd_in.app_name, cmd_in.all_windows)]
    /\ UNCHANGED <<cmd_in, vadVars, poolVars, wVars, otherVars>>

NextLaunch == CallLaunchApplication \/ CallIsApplicationRunning

LaunchSpec == InitLaunch /\ [][NextLaunch]_vars

(***************************************************************************)
(* window_detection.WindowDetection.start_monitoring                       *)
(***************************************************************************)
\* what get_active_window() returns: windows that differ in title, in app_name
\* or only in pid, and the error entry, which has neither title nor app_name
ActiveWindows ==
    { [title |-> "inbox", app_name |-> "mail", pid |-> 1],
      [title |-> "inbox", app_name |-> "mail", pid |-> 2],
      [title |-> "draft", app_name |-> "mail", pid |-> 1],
      [title |-> "inbox", app_name |-> "browser", pid |-> 1],
      [error |-> "no display", platform |-> "linux"] }

\* what get_all_windows() returns
AllWindows == { <<"inbox">>, <<"inbox", "draft">> }

\* what the callback does
CallbackOutcomes == {"returns", "raises"}

\* dict.get(key): None when the key is missing
Get(d, key) == IF key \in DOMAIN d THEN d[key] ELSE "None"

\* a loop that compares the whole window entries
MutPoll(current_active, all_windows, cb) ==
    /\ mon_state = "polling"
    /\ Len(polls) < MaxPolls
    /\ LET changed ==
             \/ last_active_window = NoWindow
             \/ current_active # last_active_window
       IN  /\ polls' = Append(polls, [active |-> current_active, windows |-> all_windows,
                                      called |-> changed, updated |-> changed])
           /\ IF changed
              THEN /\ last_active_window' = current_active
                   /\ open_windows' = all_windows
                   /\ callback_calls' =
                         Append(callback_calls,
                                [window_info |-> current_active, all_windows |-> all_windows])
                   /\ mon_state' = IF cb = "raises" THEN "stopped" ELSE "polling"
              ELSE UNCHANGED <<last_active_window, open_windows, callback_calls, mon_state>>

\* one iteration of the loop of start_monitoring, called with a callback; an
\* exception of the callback ends the monitoring
Poll(current_active, all_windows, cb) ==
    /\ mon_state = "polling"
    /\ Len(polls) < MaxPolls
    /\ LET changed ==
             \/ last_active_window = NoWindow
             \/ Get(current_active, "title") # Get(last_active_window, "title")
             \/ Get(current_active, "app_name") # Get(last_active_window, "app_name")
       IN  /\ polls' = Append(polls, [active |-> current_active, windows |-> all_windows,
                                      called |-> changed, updated |-> changed])
           /\ IF changed
              THEN /\ last_active_window' = current_active
                   /\ open_windows' = all_windows
                   /\ callback_calls' =
                         Append(callback_calls,
                                [window_info |-> current_active, all_windows |-> all_windows])
                   /\ mon_state' = IF cb = "raises" THEN "stopped" ELSE "polling"
              ELSE UNCHANGED <<last_active_window, open_windows, callback_calls, mon_state>>

InitMon == CudaIdle /\ WhisperIdle /\ CmdIdle /\ OthersIdle

MonitorPolls ==
    \E current_active \in ActiveWindows, all_windows \in AllWindows, cb \in CallbackOutcomes :
        Poll(current_active, all_windows, cb)

NextMon ==
    MonitorPolls /\ UNCHANGED <<vadVars, poolVars, wVars, cmdVars, vtVars, chatVars, ovVars>>

MonSpec == InitMon /\ [][NextMon]_vars

(***************************************************************************)
(* screenshot_task_output.py and sendImgToVisionModel.py: ScreenPrompter   *)
(***************************************************************************)
\* the api_key argument: None (the default), the empty string of the main
\* block of screenshot_task_output.py, the "TODO" of the one of
\* sendImgToVisionModel.py, and a key
NoneKey == "<None>"
ApiKeys == {NoneKey, "", "TODO", "sk-key"}

PrompterFiles == {"screenshot_task_output", "sendImgToVisionModel"}
PrompterModels == {"gpt-4o-2024-08-06", "gpt-4o-mini", "gpt-3.5"}
valid_models == {"o1", "gpt-4o", "gpt-4o-mini", "gpt-4-turbo"}

\* what OpenAI(api_key=api_key) and os.makedirs can do
ClientOutcomes == {"client", "raises"}
MakedirsOutcomes == {"ok", "raises"}
ImageOutcomes == {"read", "missing"}

\* ScreenPrompter.__init__: the exception that leaves it ("none" when the
\* object is built) and whether an OpenAI client was created
ScreenPrompterInit(file, api_key, model, openai, makedirs) ==
    IF api_key = NoneKey
    THEN [raised |-> "ValueError", client |-> FALSE]
    ELSE IF openai = "raises"
    THEN [raised |-> "OpenAIError", client |-> FALSE]
    ELSE IF file = "sendImgToVisionModel"
    THEN IF model \in valid_models
         THEN [raised |-> "none", client |-> TRUE]
         ELSE [raised |-> "ValueError", client |-> TRUE]
    ELSE IF makedirs = "raises"
    THEN [raised |-> "OSError", client |-> TRUE]
    ELSE [raised |-> "none", client |-> TRUE]

InitKey ==
    /\ CudaIdle
    /\ WhisperIdle
    /\ cmd_in \in [file : PrompterFiles, api_key : ApiKeys, model : PrompterModels,
                   openai : ClientOutcomes, makedirs : MakedirsOutcomes,
                   image : ImageOutcomes]
    /\ cmd_out = [fn |-> "none"]
    /\ OthersIdle

\* ScreenPrompter(api_key, model) followed by sendRequest(img_path, prompt), as
\* in the main block: sendRequest runs when the constructor returned, and sends
\* the request when it could read and encode the images
RunPrompter ==
    /\ cmd_out.fn = "none"
    /\ LET built == ScreenPrompterInit(cmd_in.file, cmd_in.api_key, cmd_in.model,
                                       cmd_in.openai, cmd_in.makedirs)
       IN  cmd_out' = [fn |-> "ScreenPrompter",
                       raised |-> built.raised,
                       client |-> built.client,
                       send_request_ran |-> built.raised = "none",
                       request_sent |-> built.raised = "none" /\ cmd_in.image = "read"]
    /\ UNCHANGED <<cmd_in, vadVars, poolVars, wVars, otherVars>>

NextKey == RunPrompter

KeySpec == InitKey /\ [][NextKey]_vars

(***************************************************************************)
(* OverlapSpec: cudaToText.py with every AudioProcessor toggle_record      *)
(* creates.  Each press that starts listening builds a new AudioProcessor  *)
(* and a new recording thread; the thread of the one before ends only when *)
(* its loop finds listening_event cleared.                                 *)
(***************************************************************************)
\* AudioProcessor(): a new processor whose thread has not opened its stream yet
FreshProcessor ==
    [thread |-> "starting", audio_queue |-> <<>>, audio_buffer |-> <<>>,
     recording_active |-> FALSE, silence_count |-> 0]

\* the processors whose input stream is open
OpenStreams == {p \in 1..Len(procs) : procs[p].thread = "running"}

\* toggle_record
OvToggleRecord ==
    /\ toggles < MaxOvToggles
    /\ toggles' = toggles + 1
    /\ IF ~listening_event
       THEN /\ listening_event' = TRUE
            /\ procs' = Append(procs, FreshProcessor)
       ELSE /\ listening_event' = FALSE
            /\ UNCHANGED procs
    /\ UNCHANGED <<proc_thread, delivered, audio_queue, audio_buffer, recording_active,
                   silence_count, consumed, dispatched, poolVars, mic_blocks,
                   session_of, ov_dispatched>>

\* process_audio of processor p opens its input stream, or fails to
OvOpenStream(p, ok) ==
    /\ procs[p].thread = "starting"
    /\ procs' = [procs EXCEPT ![p].thread = IF ok THEN "running" ELSE "exited"]
    /\ UNCHANGED <<vadVars, poolVars, mic_blocks, session_of, ov_dispatched>>

\* a loop whose queue read has no timeout: it sees listening_event cleared only
\* when a block has arrived
MutOvLoopExit(p) ==
    /\ procs[p].thread = "running"
    /\ ~listening_event
    /\ procs[p].audio_queue # <<>>
    /\ procs' = [procs EXCEPT ![p].thread = "exited"]
    /\ UNCHANGED <<vadVars, poolVars, mic_blocks, session_of, ov_dispatched>>

\* the loop of processor p finds listening_event cleared and ends
OvLoopExit(p) ==
    /\ procs[p].thread = "running"
    /\ ~listening_event
    /\ procs' = [procs EXCEPT ![p].thread = "exited"]
    /\ UNCHANGED <<vadVars, poolVars, mic_blocks, session_of, ov_dispatched>>

\* an audio_callback that queues the block whether listening_event is set or
\* not
MutOvMicBlock ==
    /\ OpenStreams # {}
    /\ mic_blocks < MaxOvBlocks
    /\ \A p \in OpenStreams : Len(procs[p].audio_queue) < MaxQueue
    /\ mic_blocks' = mic_blocks + 1
    /\ session_of' = Append(session_of, IF listening_event THEN Len(procs) ELSE 0)
    /\ procs' = [p \in 1..Len(procs) |->
                    IF p \in OpenStreams
                    THEN [procs[p] EXCEPT
                            !.audio_queue =
                                Append(@, BlockOf(mic_blocks + 1, SpokenPeak(mic_blocks + 1)))]
                    ELSE procs[p]]
    /\ UNCHANGED <<vadVars, poolVars, ov_dispatched>>

\* the sound device captures one block and every open stream calls the
\* audio_callback of its processor, which puts the block into its queue while
\* listening_event is set and drops it otherwise
OvMicBlock ==
    /\ OpenStreams # {}
    /\ mic_blocks < MaxOvBlocks
    /\ \A p \in OpenStreams : Len(procs[p].audio_queue) < MaxQueue
    /\ mic_blocks' = mic_blocks + 1
    /\ session_of' = Append(session_of, IF listening_event THEN Len(procs) ELSE 0)
    /\ procs' = [p \in 1..Len(procs) |->
                    IF p \in OpenStreams /\ listening_event
                    THEN [procs[p] EXCEPT
                            !.audio_queue =
                                Append(@, BlockOf(mic_blocks + 1, SpokenPeak(mic_blocks + 1)))]
                    ELSE procs[p]]
    /\ UNCHANGED <<vadVars, poolVars, ov_dispatched>>

\* one iteration of the loop of processor p that gets a block from its queue
OvProcessAudioStep(p) ==
    /\ procs[p].thread = "running"
    /\ listening_event
    /\ procs[p].audio_queue # <<>>
    /\ LET current_audio == Head(procs[p].audio_queue)
           r == VadStep(procs[p].audio_buffer, procs[p].recording_active,
                        procs[p].silence_count, current_audio)
       IN  /\ procs' = [procs EXCEPT ![p] =
                          [thread |-> "running",
                           audio_queue |-> Tail(procs[p].audio_queue),
                           audio_buffer |-> r.buffer,
                           recording_active |-> r.recording,
                           silence_count |-> r.silence]]
           /\ IF r.submit # <<>>
              THEN /\ ov_dispatched' =
                         Append(ov_dispatched,
                                [proc |-> p, audio |-> r.submit, session |-> Len(procs)])
                   /\ ExecutorSubmit(r.submit)
              ELSE UNCHANGED <<ov_dispatched, work_queue, submitted, waited>>
    /\ UNCHANGED <<vadVars, running, processed, last_task, mic_blocks, session_of>>

InitOverlap == CudaIdle /\ WhisperIdle /\ CmdIdle /\ OthersIdle

OvStreamOpens == \E p \in 1..Len(procs), ok \in BOOLEAN : OvOpenStream(p, ok)
OvLoopEnds == \E p \in 1..Len(procs) : OvLoopExit(p)
OvLoopRuns == \E p \in 1..Len(procs) : OvProcessAudioStep(p)

NextOverlap ==
    \/ OvToggleRecord /\ UNCHANGED <<wVars, cmdVars, vtVars, chatVars, monVars>>
    \/ OvStreamOpens /\ UNCHANGED <<wVars, cmdVars, vtVars, chatVars, monVars>>
    \/ OvLoopEnds /\ UNCHANGED <<wVars, cmdVars, vtVars, chatVars, monVars>>
    \/ OvMicBlock /\ UNCHANGED <<wVars, cmdVars, vtVars, chatVars, monVars>>
    \/ OvLoopRuns /\ UNCHANGED <<wVars, cmdVars, vtVars, chatVars, monVars>>

OverlapSpec == InitOverlap /\ [][NextOverlap]_vars

(***************************************************************************)
(* voiceToText_whisper.py: toggle_record and the recording thread.  The    *)
(* model follows one AudioProcessor at a time: the button starts a new one *)
(* when the thread of the one before has ended.                            *)
(***************************************************************************)
\* toggle_record
WToggleRecord ==
    /\ IF ~listening
       THEN /\ w_thread \in {"none", "exited"}
            /\ listening' = TRUE
            /\ w_audio_buffer' = <<>>
            /\ is_recording' = FALSE
            /\ w_silence_count' = 0
            /\ w_thread' = "starting"
       ELSE /\ listening' = FALSE
            /\ UNCHANGED <<w_thread, w_audio_buffer, is_recording, w_silence_count>>
    /\ UNCHANGED <<w_delivered, received, w_dispatched, threads, w_started,
                   w_finished, w_last_task>>

\* process_audio opens the input stream, or fails to and the thread ends
WOpenStream(ok) ==
    /\ w_thread = "starting"
    /\ w_thread' = IF ok THEN "running" ELSE "exited"
    /\ UNCHANGED <<listening, w_delivered, w_audio_buffer, is_recording,
                   w_silence_count, received, w_dispatched, threads, w_started,
                   w_finished, w_last_task>>

\* "while listening: sd.sleep(100)" finds listening False: the stream is closed
\* and the thread ends
WLoopExit ==
    /\ w_thread = "running"
    /\ ~listening
    /\ w_thread' = "exited"
    /\ UNCHANGED <<listening, w_delivered, w_audio_buffer, is_recording,
                   w_silence_count, received, w_dispatched, threads, w_started,
                   w_finished, w_last_task>>

(***************************************************************************)
(* StopSpec: a run of cudaToText.py (as in OverlapSpec) or a run of        *)
(* voiceToText_whisper.py, from program start, with the record button      *)
(* pressed at any time and the sound device delivering blocks as long as   *)
(* a stream is open.  FairStopSpec: the recording threads get to run.      *)
(***************************************************************************)
\* the program this run is not a run of has not been started
CudaNotStarted == toggles = 0
WhisperNotStarted == ~listening /\ w_thread = "none"

WStreamOpens == \E ok \in BOOLEAN : WOpenStream(ok)
WStopSpeakerTalks == WAudioCallback(SpokenPeak(w_delivered + 1), FALSE, MaxOvBlocks)

NextStop ==
    \/ WhisperNotStarted /\ OvToggleRecord
          /\ UNCHANGED <<wVars, cmdVars, vtVars, chatVars, monVars>>
    \/ OvStreamOpens /\ UNCHANGED <<wVars, cmdVars, vtVars, chatVars, monVars>>
    \/ OvLoopEnds /\ UNCHANGED <<wVars, cmdVars, vtVars, chatVars, monVars>>
    \/ OvMicBlock /\ UNCHANGED <<wVars, cmdVars, vtVars, chatVars, monVars>>
    \/ OvLoopRuns /\ UNCHANGED <<wVars, cmdVars, vtVars, chatVars, monVars>>
    \/ CudaNotStarted /\ WToggleRecord
          /\ UNCHANGED <<vadVars, poolVars, cmdVars, otherVars>>
    \/ WStreamOpens /\ UNCHANGED <<vadVars, poolVars, cmdVars, otherVars>>
    \/ WLoopExit /\ UNCHANGED <<vadVars, poolVars, cmdVars, otherVars>>
    \/ WStopSpeakerTalks /\ UNCHANGED <<vadVars, poolVars, cmdVars, otherVars>>

StopSpec == InitOverlap /\ [][NextStop]_vars

\* the scheduler lets every recording thread run: it opens its stream, and its
\* loop evaluates its condition again (the queue read of cudaToText.py times
\* out after 0.15 s, the sleep of voiceToText_whisper.py ends after 100 ms)
StopFairness ==
    /\ \A p \in 1..MaxOvToggles :
          /\ WF_vars(p \in 1..Len(procs) /\ (\E ok \in BOOLEAN : OvOpenStream(p, ok))
                     /\ UNCHANGED <<wVars, cmdVars, vtVars, chatVars, monVars>>)
          /\ WF_vars(p \in 1..Len(procs) /\ OvLoopExit(p)
                     /\ UNCHANGED <<wVars, cmdVars, vtVars, chatVars, monVars>>)
    /\ WF_vars(WStreamOpens /\ UNCHANGED <<vadVars, poolVars, cmdVars, otherVars>>)
    /\ WF_vars(WLoopExit /\ UNCHANGED <<vadVars, poolVars, cmdVars, otherVars>>)

FairStopSpec == InitOverlap /\ [][NextStop]_vars /\ StopFairness

(***************************************************************************)
(* CmdSpec: the two functions applied to one text                          *)
(***************************************************************************)
CmdInputs ==
    [text : Texts, pg : PyAutoGui, screen_width : ScreenWidths, snapshot : Snapshots]

InitCmd ==
    /\ CudaIdle
    /\ WhisperIdle
    /\ cmd_in \in CmdInputs
    /\ cmd_out = [fn |-> "none"]
    /\ OthersIdle

\* process_typed_command / save_and_process_audio calling process_voice_command
CallProcessVoiceCommand ==
    /\ cmd_out.fn = "none"
    /\ cmd_out' = [fn |-> "process_voice_command",
                   result |-> ProcessVoiceCommand(cmd_in.text, cmd_in.pg, cmd_in.screen_width)]
    /\ UNCHANGED <<cmd_in, vadVars, poolVars, wVars, otherVars>>

\* a caller of get_context_for_speech_command; the second snapshot is the one a
\* call at another moment would have taken
CallGetContext ==
    /\ cmd_out.fn = "none"
    /\ \E other \in Snapshots :
         cmd_out' = [fn |-> "get_context_for_speech_command",
                     result |-> GetContextForSpeechCommand(cmd_in.text, cmd_in.snapshot),
                     other_snapshot |-> other,
                     other_result |-> GetContextForSpeechCommand(cmd_in.text, other)]
    /\ UNCHANGED <<cmd_in, vadVars, poolVars, wVars, otherVars>>

NextCmd == CallProcessVoiceCommand \/ CallGetContext

CmdSpec == InitCmd /\ [][NextCmd]_vars

(***************************************************************************)
(* Claims about the command interpreter and the context probe (CmdSpec)    *)
(***************************************************************************)
\* the text as both functions normalise it
CmdText == Strip(Lower(cmd_in.text))

\* the flag the text alone calls for
FlagExpected ==
    Contains(p_thanks_for_watching, CmdText) /\ ~Contains(p_youtube, CmdText)

\* the text reads as an open/launch/start command
OpenExpected ==
    /\ Contains(p_open, CmdText) \/ Contains(p_launch, CmdText) \/ Contains(p_start, CmdText)
    /\ WordCount(CmdText) >= 2

\* C8: get_context_for_speech_command marks a text likely_false_positive
\* exactly when its lower-cased, trimmed form contains "thanks for watching"
\* and not "youtube"; a snapshot with other open applications gives the same
\* flag; and a flagged text is never interpreted as an open/launch/start
\* command.
C8_FalsePositiveFlag ==
    cmd_out.fn = "get_context_for_speech_command" =>
        /\ cmd_out.result.likely_false_positive = FlagExpected
        /\ cmd_out.other_result.likely_false_positive
              = cmd_out.result.likely_false_positive
        /\ FlagExpected => cmd_out.result.kind = "false_positive"
        /\ (~FlagExpected /\ OpenExpected) => cmd_out.result.kind = "open_application"

\* C8's case: a flagged text that also reads as an open command, looked at
\* with a video application open and with none
C8_Witness ==
    /\ cmd_out.fn = "get_context_for_speech_command"
    /\ cmd_out.result.likely_false_positive
    /\ OpenExpected
    /\ HasVideoApp(cmd_in.snapshot)
    /\ ~HasVideoApp(cmd_out.other_snapshot)

\* the one OS input action the text calls for
ActionExpected ==
    IF Contains(p_move_mouse, CmdText) \/ Contains(p_move_the_mouse, CmdText)
    THEN IF Contains(p_top_right, CmdText)
         THEN MoveTo(cmd_in.screen_width - 1, 0)
         ELSE MoveTo(200, 200)
    ELSE IF Contains(p_exit_window, CmdText) \/ Contains(p_close_window, CmdText)
    THEN HotkeyAltF4
    ELSE NoAction

\* C9: process_voice_command issues at most one OS input action, chosen by
\* case-insensitive substring matching: a move-mouse phrase moves the pointer
\* (to the top right corner when "top right" is there too, to (200, 200)
\* otherwise), an exit phrase without a move-mouse phrase sends Alt+F4, any
\* other text issues nothing; with both phrases only the mouse moves.
C9_CommandMapping ==
    cmd_out.fn = "process_voice_command" =>
        /\ cmd_out.result.action \in {NoAction, ActionExpected}
        /\ cmd_in.pg = "available" => cmd_out.result.action = ActionExpected

\* C9's case: a text with a move-mouse phrase and an exit phrase moved the mouse
C9_Witness ==
    /\ cmd_out.fn = "process_voice_command"
    /\ IsMoveMouse(CmdText) /\ IsExit(CmdText)
    /\ cmd_out.result.action = MoveTo(200, 200)

\* C10: process_voice_command returns True exactly when it completed an OS
\* input action; it returns False when no phrase matched and when issuing the
\* action raised, and then the exception stays inside and a "Command error"
\* status is scheduled.
C10_ReturnValue ==
    cmd_out.fn = "process_voice_command" =>
        LET r == cmd_out.result
        IN  /\ r.ret = (r.action # NoAction)
            /\ ActionExpected = NoAction => (r.ret = FALSE /\ ~r.raised)
            /\ r.raised = (ActionExpected # NoAction /\ cmd_in.pg # "available")
            /\ r.raised =>
                  /\ r.ret = FALSE
                  /\ ~r.propagated
                  /\ \E i \in 1..Len(r.status) : r.status[i] = CommandErrorStatus
            /\ ~r.raised => \A i \in 1..Len(r.status) : r.status[i] # CommandErrorStatus

\* C10's case: pyautogui is None and the text asks to move the mouse
C10_Witness ==
    /\ cmd_out.fn = "process_voice_command"
    /\ cmd_in.pg = "None"
    /\ IsMoveMouse(CmdText)
    /\ cmd_out.result.raised
    /\ cmd_out.result.ret = FALSE

(***************************************************************************)
(* Claims about the segmentation of cudaToText.py (VadSpec)                *)
(***************************************************************************)
\* the number of blocks consumed when the utterance before the k-th was submitted
PrevTrigger(k) == IF k = 1 THEN 0 ELSE dispatched[k - 1].trigger

\* the blocks consumed after the previous dispatch, up to the dispatch of the
\* k-th utterance, that are speech
SpeechSince(k) ==
    {i \in (PrevTrigger(k) + 1)..dispatched[k].trigger : IsSpeechBlock(consumed[i])}

\* the speech-onset block of the k-th utterance: the first of them
OnsetOf(k) == CHOOSE i \in SpeechSince(k) : \A j \in SpeechSince(k) : i <= j

\* C1: each utterance cudaToText.py dispatches is the in-order concatenation of
\* every block consumed from the speech-onset block up to and including the
\* silent block that triggers the dispatch, and of nothing else.
C1_UtteranceIsSpan ==
    \A k \in 1..Len(dispatched) :
        /\ SpeechSince(k) # {}
        /\ dispatched[k].audio
              = Concatenate(SubSeq(consumed, OnsetOf(k), dispatched[k].trigger))

\* C1's case: an utterance that starts after ignored silence and holds a speech
\* block consumed while recording
C1_Witness ==
    \E k \in 1..Len(dispatched) :
        /\ OnsetOf(k) > PrevTrigger(k) + 1
        /\ Cardinality(SpeechSince(k)) >= 2
        /\ dispatched[k].trigger = Len(consumed)

\* C2 (as claimed): an utterance is dispatched only when the 8 most recently
\* processed blocks were all silent.
C2_TrailingSilenceIsConsecutive ==
    \A k \in 1..Len(dispatched) :
        LET t == dispatched[k].trigger
        IN  /\ t >= MAX_SILENCE_CHUNKS
            /\ \A i \in (t - MAX_SILENCE_CHUNKS + 1)..t : ~IsSpeechBlock(consumed[i])

(***************************************************************************)
(* Claims about the segmentation of voiceToText_whisper.py (WVadSpec)      *)
(***************************************************************************)
WPrevTrigger(k) == IF k = 1 THEN 0 ELSE w_dispatched[k - 1].trigger

WSpeechSince(k) ==
    {i \in (WPrevTrigger(k) + 1)..w_dispatched[k].trigger : WIsSpeechBlock(received[i])}

WOnsetOf(k) == CHOOSE i \in WSpeechSince(k) : \A j \in WSpeechSince(k) : i <= j

\* C3 (as claimed): each utterance voiceToText_whisper.py dispatches is the
\* in-order concatenation of every block received, with listening on and no
\* status flag, from the speech-onset block up to and including the silent
\* block that triggers the dispatch.
C3_WhisperUtteranceIsSpan ==
    \A k \in 1..Len(w_dispatched) :
        /\ WSpeechSince(k) # {}
        /\ w_dispatched[k].audio
              = Concatenate(SubSeq(received, WOnsetOf(k), w_dispatched[k].trigger))

(***************************************************************************)
(* Claims about the worker pool of cudaToText.py (PoolSpec, FairPoolSpec)  *)
(***************************************************************************)
QueuedIds == {work_queue[i].id : i \in 1..Len(work_queue)}
RunningIds == {t.id : t \in running}

\* C4: at most 4 save_and_process_audio tasks execute at the same time; an
\* utterance submitted while 4 are running waits in the executor's queue.
C4_AtMostFourRunning ==
    /\ Cardinality(running) <= 4
    /\ \A u \in waited : u \in QueuedIds \cup RunningIds \cup processed

\* C4's case: four tasks are running and a fifth utterance, submitted
\* meanwhile, waits
C4_Witness ==
    /\ Cardinality(running) = 4
    /\ \E u \in waited : u \in QueuedIds

\* the utterances the speaker can complete within the bound
UtteranceIds == 1..(MaxPoolBlocks \div (MAX_SILENCE_CHUNKS + 1))

\* C6: every utterance submitted to the worker pool is eventually processed by
\* save_and_process_audio, when every call terminates and the workers are
\* scheduled fairly.
C6_EverySubmittedIsProcessed ==
    \A u \in UtteranceIds : (submitted >= u) ~> (u \in processed)

\* C6's case: an utterance that was submitted while all 4 workers were busy has
\* been processed, and listening has been switched off
C6_Witness ==
    /\ ~listening_event
    /\ \E u \in waited : u \in processed

(***************************************************************************)
(* Claims about save_and_process_audio of cudaToText.py (TaskSpec)         *)
(***************************************************************************)
\* C7: the recognized text is forwarded to process_voice_command exactly when
\* it is non-empty after trimming and get_context_for_speech_command does not
\* mark it likely_false_positive; for an empty or a flagged text no OS input
\* action is issued.
C7_ForwardedIffRealCommand ==
    last_task.id # 0 =>
        /\ last_task.kind # "error" =>
              \A sn \in Snapshots :
                  last_task.forwarded
                    = (/\ Strip(last_task.text) # <<>>
                       /\ ~GetContextForSpeechCommand(last_task.text, sn).likely_false_positive)
        /\ last_task.kind = "error" => ~last_task.forwarded
        /\ ~last_task.forwarded => last_task.cmd.action = NoAction

\* C7's case: a text that asks to move the mouse and is flagged as a false
\* positive was not forwarded
C7_Witness ==
    /\ last_task.id # 0
    /\ last_task.kind = "ignored"
    /\ Contains(p_thanks_for_watching, Strip(Lower(last_task.text)))
    /\ ~last_task.forwarded

(***************************************************************************)
(* Claims about the threads of voiceToText_whisper.py (WPoolSpec)          *)
(***************************************************************************)
\* C5 (as claimed): the number of concurrently running save_and_process_audio
\* threads never exceeds a fixed bound (here the 4 of the pool of cudaToText.py;
\* one more utterance exceeds any other).
C5_ThreadsBounded == Cardinality(threads) <= max_workers

\* C5 (amended): every completed utterance is handed to a thread of its own,
\* started at once; the threads running are the utterances completed and not
\* yet processed.
C5_ThreadPerUtterance ==
    /\ w_started = Len(w_dispatched)
    /\ {t.id : t \in threads} = (1..Len(w_dispatched)) \ w_finished
    /\ Cardinality(threads) = Len(w_dispatched) - Cardinality(w_finished)

\* C5's case: more threads are running than a pool of 4 would allow
C5_Witness == Cardinality(threads) > 4

(***************************************************************************)
(* Claims about toggle_record and the recording thread (PoolSpec)          *)
(***************************************************************************)
\* no toggle is in progress: the recording thread a press started has opened
\* its stream or failed to, and the loop has noticed a press that stopped it
NoToggleInProgress ==
    /\ proc_thread # "starting"
    /\ ~(proc_thread = "running" /\ ~listening_event)

\* C11: whenever no toggle is in progress, listening_event is set exactly when
\* a recording thread with an open input stream is running, also after the
\* input stream failed to open.
C11_ListeningReflectsActive ==
    NoToggleInProgress => (listening_event <=> proc_thread = "running")

(***************************************************************************)
(* Claims about toggle_record of voiceToText.py (VtSpec)                   *)
(***************************************************************************)
\* the listeners that were started and not yet asked to stop
LiveListeners == {i \in 1..Len(listeners) : listeners[i] = "listening"}

\* C12: listening is true exactly when a listener started by
\* listen_in_background has not yet been asked to stop, after any sequence of
\* toggle_record calls, also ones in which creating the microphone or starting
\* the listener raises; every call that does not raise flips listening.
C12_ListeningReflectsListener ==
    /\ v_listening <=> LiveListeners # {}
    /\ Cardinality(LiveListeners) <= 1
    /\ v_listening => stop_listening \in LiveListeners
    /\ \A i \in 1..Len(v_log) :
          IF v_log[i].did \in {"mic_raised", "listen_raised"}
          THEN v_log[i].after = v_log[i].before
          ELSE v_log[i].after = ~v_log[i].before

\* C12's case: a call raised, a later one started a listener, and the one after
\* stopped it
C12_Witness ==
    /\ \E i \in 1..Len(v_log) : \E j \in (i+1)..Len(v_log) : \E k \in (j+1)..Len(v_log) :
          /\ v_log[i].did = "listen_raised"
          /\ v_log[j].did = "started"
          /\ v_log[k].did = "stopped"
    /\ ~v_listening

(***************************************************************************)
(* Claims about the speech test (EnergySpec)                               *)
(***************************************************************************)
\* the absolute value of a sample as a mathematical integer
Magnitude(v) == IF v < 0 THEN 0 - v ELSE v

\* the largest magnitude of the samples of a block
PeakMagnitude(block) ==
    LET mags == {Magnitude(block[i].v) : i \in 1..Len(block)}
    IN  CHOOSE m \in mags : \A k \in mags : k <= m

\* C14 (as claimed): a block of signed 16-bit samples is classified as speech
\* exactly when the largest magnitude of its samples, as a mathematical
\* integer, is strictly greater than 500.
C14_SpeechIffPeakAboveThreshold ==
    cmd_out.fn \in {"cudaToText", "voiceToText_whisper"} =>
        (cmd_out.speech <=> PeakMagnitude(cmd_in.block) > 500)

(***************************************************************************)
(* Claims about the utterances of both programs (SegSpec)                  *)
(***************************************************************************)
\* the samples of the first and of the last block of an utterance
FirstBlock(audio) == SelectSeq(audio, LAMBDA x : x.blk = audio[1].blk)
LastBlock(audio) == SelectSeq(audio, LAMBDA x : x.blk = audio[Len(audio)].blk)

\* the numbers of the blocks an utterance holds samples of
BlocksIn(audio) == {audio[i].blk : i \in 1..Len(audio)}

\* the blocks cudaToText.py consumed while not recording that were silent: no
\* speech block was consumed between the dispatch before them and them
IgnoredSilence ==
    {i \in 1..Len(consumed) :
        \A j \in 1..i :
            IsSpeechBlock(consumed[j]) =>
                \E k \in 1..Len(dispatched) : j <= dispatched[k].trigger
                                              /\ dispatched[k].trigger < i}

\* the same for the blocks voiceToText_whisper.py received
WIgnoredSilence ==
    {i \in 1..Len(received) :
        \A j \in 1..i :
            WIsSpeechBlock(received[j]) =>
                \E k \in 1..Len(w_dispatched) : j <= w_dispatched[k].trigger
                                                /\ w_dispatched[k].trigger < i}

\* C13: every dispatched utterance begins with a block the detector takes for
\* speech and ends with a block it takes for silent; a silent block met while
\* not recording leaves buffer, recording flag and silence counter as they are
\* and is in no utterance.
C13_UtteranceBounds ==
    /\ \A k \in 1..Len(dispatched) :
          /\ IsSpeechBlock(FirstBlock(dispatched[k].audio))
          /\ ~IsSpeechBlock(LastBlock(dispatched[k].audio))
          /\ \A i \in IgnoredSilence : consumed[i][1].blk \notin BlocksIn(dispatched[k].audio)
    /\ \A k \in 1..Len(w_dispatched) :
          /\ WIsSpeechBlock(FirstBlock(w_dispatched[k].audio))
          /\ ~WIsSpeechBlock(LastBlock(w_dispatched[k].audio))
          /\ \A i \in WIgnoredSilence : received[i][1].blk \notin BlocksIn(w_dispatched[k].audio)
    /\ ~recording_active =>
          /\ silence_count = 0
          /\ audio_buffer = <<>>
          /\ VadStep(audio_buffer, recording_active, silence_count,
                     BlockOf(delivered + 1, SilentPeak))
               = [buffer |-> audio_buffer, recording |-> recording_active,
                  silence |-> silence_count, submit |-> <<>>]
    /\ ~is_recording =>
          /\ w_silence_count = 0
          /\ w_audio_buffer = <<>>
          /\ WVadStep(w_audio_buffer, is_recording, w_silence_count,
                      BlockOf(w_delivered + 1, SilentPeak))
               = [buffer |-> w_audio_buffer, recording |-> is_recording,
                  silence |-> w_silence_count, submit |-> <<>>]

\* C13's case: silent blocks were ignored before the onset of an utterance and
\* after its dispatch, in either program
C13_Witness ==
    \/ /\ Len(dispatched) >= 1
       /\ \E i \in IgnoredSilence : i < dispatched[1].trigger
       /\ \E i \in IgnoredSilence : i > dispatched[1].trigger
    \/ /\ Len(w_dispatched) >= 1
       /\ \E i \in WIgnoredSilence : i < w_dispatched[1].trigger
       /\ \E i \in WIgnoredSilence : i > w_dispatched[1].trigger

(***************************************************************************)
(* Claims about the conversation of apiModelTest.py (ChatSpec)             *)
(***************************************************************************)
\* the input ends the session
IsExitInput(user_input) == Lower(Strip(user_input)) = t_exit

\* C15: at every api_call the message list is the system prompt followed by
\* all earlier user inputs and assistant replies in their order, alternating
\* user/assistant and ending with the current input; no message is removed or
\* altered afterwards; an input that is "exit" after trimming, ignoring case,
\* ends the session and is neither appended nor sent.
C15_ConversationKeepsContext ==
    /\ \A i \in 1..Len(sent) :
          /\ Len(sent[i]) = 2 * i
          /\ sent[i][1] = [role |-> "system", content |-> "prompt"]
          /\ \A j \in 2..(2 * i) :
                sent[i][j].role = IF j % 2 = 0 THEN "user" ELSE "assistant"
          /\ \A j \in 1..i : sent[i][2 * j].content = chat_inputs[j]
          /\ \A j \in 1..(i - 1) : SubSeq(sent[i], 1, 2 * j) = sent[j]
          /\ Len(conversation) >= 2 * i
          /\ SubSeq(conversation, 1, 2 * i) = sent[i]
    /\ \A k \in 1..Len(chat_inputs) :
          IF IsExitInput(chat_inputs[k])
          THEN /\ k = Len(chat_inputs)
               /\ chat_state = "exited"
               /\ Len(sent) = k - 1
               /\ Len(conversation) = 2 * k - 1
          ELSE /\ Len(sent) >= k
               /\ conversation[2 * k] = [role |-> "user", content |-> chat_inputs[k]]

\* C15's case: after two questions with their replies, an exit typed in capitals
\* with whitespace around it ended the session
C15_Witness ==
    /\ chat_state = "exited"
    /\ Len(sent) = 2
    /\ chat_inputs[Len(chat_inputs)] = t_EXIT_padded
    /\ Len(conversation) = 5

(***************************************************************************)
(* Claims about launch_application (LaunchSpec)                            *)
(***************************************************************************)
\* C16 (as claimed): launch_application returns True exactly when a launch was
\* attempted, that is when a process start was issued for the application.
C16_TrueIffLaunchAttempted ==
    cmd_out.fn = "launch_application" =>
        (cmd_out.result.ret <=> cmd_out.result.popen_called)

(***************************************************************************)
(* Claims about start_monitoring (MonSpec)                                 *)
(***************************************************************************)
\* the polls before the i-th on which the callback was called
ReportedBefore(i) == {j \in 1..(i - 1) : polls[j].called}

\* the window reported last before the i-th poll
LastReported(i) ==
    IF ReportedBefore(i) = {} THEN NoWindow
    ELSE polls[CHOOSE j \in ReportedBefore(i) : \A k \in ReportedBefore(i) : k <= j].active

\* the windows seen on the polls on which the callback was called, in order
RECURSIVE ReportsUpTo(_)
ReportsUpTo(n) ==
    IF n = 0 THEN <<>>
    ELSE IF polls[n].called
         THEN Append(ReportsUpTo(n - 1),
                     [window_info |-> polls[n].active, all_windows |-> polls[n].windows])
         ELSE ReportsUpTo(n - 1)

\* C17: the callback is called on the first poll and afterwards on exactly the
\* polls whose active window differs in title or app_name from the one
\* reported last; last_active_window and open_windows are updated on exactly
\* those polls and are unchanged otherwise.
C17_CallbackOnChange ==
    /\ \A i \in 1..Len(polls) :
          /\ polls[i].called <=>
                \/ i = 1
                \/ Get(polls[i].active, "title") # Get(LastReported(i), "title")
                \/ Get(polls[i].active, "app_name") # Get(LastReported(i), "app_name")
          /\ polls[i].updated <=> polls[i].called
    /\ callback_calls = ReportsUpTo(Len(polls))
    /\ last_active_window = LastReported(Len(polls) + 1)
    /\ open_windows = IF callback_calls = <<>> THEN <<>>
                      ELSE callback_calls[Len(callback_calls)].all_windows

\* C17's case: after the first poll, a poll saw the same title and app_name
\* with another pid and other windows and was not reported, and the next one
\* saw another title and was
C17_Witness ==
    /\ Len(polls) = 3
    /\ polls[2].active # polls[1].active
    /\ polls[2].windows # polls[1].windows
    /\ ~polls[2].called
    /\ polls[3].called
    /\ open_windows = polls[3].windows

(***************************************************************************)
(* Claims about ScreenPrompter (KeySpec)                                   *)
(***************************************************************************)
\* C18 (as claimed): constructing a ScreenPrompter raises ValueError whenever
\* no API key is provided (None or the empty string); then no client is
\* created and no request is sent, so sendRequest only runs on an object built
\* with a key.
C18_NoKeyRaisesValueError ==
    cmd_out.fn = "ScreenPrompter" =>
        /\ cmd_in.api_key \in {NoneKey, ""} =>
              /\ cmd_out.raised = "ValueError"
              /\ ~cmd_out.client
              /\ ~cmd_out.request_sent
        /\ cmd_out.send_request_ran => cmd_in.api_key \notin {NoneKey, ""}

(***************************************************************************)
(* Claims about toggling while a loop is still running (OverlapSpec)       *)
(***************************************************************************)
\* C19 (as claimed): for every sequence of presses of the button at most one
\* audio processing loop with an open input stream is active at any time, and
\* no captured block is dispatched by two processors.
C19_AtMostOneLoop ==
    /\ Cardinality(OpenStreams) <= 1
    /\ \A i, j \in 1..Len(ov_dispatched) :
          ov_dispatched[i].proc # ov_dispatched[j].proc =>
              BlocksIn(ov_dispatched[i].audio) \cap BlocksIn(ov_dispatched[j].audio) = {}

\* C20 (as claimed): the blocks buffered when listening is switched off are
\* discarded: no utterance dispatched in a later listening session holds a
\* block captured before that stop.
C20_StopDiscardsBuffer ==
    \A i \in 1..Len(ov_dispatched) :
        \A b \in BlocksIn(ov_dispatched[i].audio) :
            session_of[b] = ov_dispatched[i].session

(***************************************************************************)
(* Claims about the worker threads of cudaToText.py (TaskSpec)             *)
(***************************************************************************)
\* C21 (as claimed): commands take effect in utterance order: when the call of
\* save_and_process_audio for an utterance has had its effects (the OS input
\* action, the update of the transcript), the calls for all utterances
\* dispatched before it have had theirs.
C21_EffectsInUtteranceOrder ==
    last_task.id # 0 => \A i \in 1..last_task.id : i \in processed

\* C22 (as claimed): the temporary WAV file a call of save_and_process_audio
\* created is removed when the call has finished, on every path, in
\* cudaToText.py and in voiceToText_whisper.py.
C22_TempFileRemoved ==
    /\ last_task.id # 0 => last_task.temp_file = "removed"
    /\ w_last_task.id # 0 => w_last_task.temp_file = "removed"

\* C24 (as claimed): every widget update a worker thread makes in a call of
\* save_and_process_audio is handed to the GUI main thread with after.
C24_WidgetUpdatesViaAfter ==
    last_task.id # 0 => \A u \in WidgetUpdates(last_task) : u.via_after

(***************************************************************************)
(* Claims about a failing save_and_process_audio call (WPoolSpec)          *)
(***************************************************************************)
\* the call of save_and_process_audio that ends in this step failed
CallFails == last_task' # last_task /\ last_task'.kind = "error"
WCallFails == w_last_task' # w_last_task /\ w_last_task'.kind = "error"

\* C23 (as claimed): a failure while transcribing or processing one utterance
\* is confined to that utterance: it is reported as a "Processing error" text,
\* it leaves the buffer, the recording flag, the silence count and the
\* listening flag as they were, and it takes nothing from the utterances that
\* wait or are being processed, in cudaToText.py and in voiceToText_whisper.py.
C23_FailureConfined ==
    /\ [](last_task.id # 0 /\ last_task.kind = "error"
            => last_task.text_input = "Processing error")
    /\ [](w_last_task.id # 0 /\ w_last_task.kind = "error"
            => w_last_task.shown = "Processing error")
    /\ [][CallFails =>
             /\ UNCHANGED <<audio_buffer, recording_active, silence_count,
                            listening_event, audio_queue, work_queue>>
             /\ running' \subseteq running
             /\ Cardinality(running') = Cardinality(running) - 1]_vars
    /\ [][WCallFails =>
             /\ UNCHANGED <<w_audio_buffer, is_recording, w_silence_count, listening>>
             /\ threads' \subseteq threads
             /\ Cardinality(threads') = Cardinality(threads) - 1]_vars

(***************************************************************************)
(* Claims about switching listening off (StopSpec, FairStopSpec)           *)
(***************************************************************************)
\* no recording thread of cudaToText.py is starting or running
NoLoopLeft == \A p \in 1..Len(procs) : procs[p].thread = "exited"

\* the recording thread of voiceToText_whisper.py is not starting or running
WNoLoopLeft == w_thread \in {"none", "exited"}

\* C25: once listening is switched off and stays off, every audio processing
\* loop eventually ends and its input stream is closed, whether or not another
\* block arrives, in cudaToText.py and in voiceToText_whisper.py.
C25_LoopExitsAfterStop ==
    /\ []([]~listening_event => <>NoLoopLeft)
    /\ []([]~listening => <>WNoLoopLeft)

\* C25's case: a stream was open and captured blocks, listening was switched
\* off, no block arrived after that, and every loop has ended
C25_Witness ==
    /\ ~listening_event
    /\ mic_blocks > 0
    /\ session_of[Len(session_of)] # 0
    /\ NoLoopLeft

\* the blocks of the utterances voiceToText_whisper.py handed over, and the
\* blocks its callback received while listening was on
WDispatchedBlocks == UNION { BlocksIn(w_dispatched[i].audio) : i \in 1..Len(w_dispatched) }
WReceivedBlocks == UNION { BlocksIn(received[i]) : i \in 1..Len(received) }

\* C26: a block the input stream delivers while listening is off changes no
\* state of the detector (queue, buffer, recording flag, silence count) and
\* starts no processing, and no utterance ever holds such a block.
C26_BlockWhileOffIgnored ==
    /\ [][(mic_blocks' = mic_blocks + 1 /\ ~listening_event)
             => UNCHANGED <<procs, ov_dispatched, work_queue, submitted>>]_vars
    /\ [][(w_delivered' = w_delivered + 1 /\ ~listening)
             => UNCHANGED <<w_audio_buffer, is_recording, w_silence_count, received,
                            w_dispatched, threads, w_started>>]_vars
    /\ [](\A i \in 1..Len(ov_dispatched) :
             \A b \in BlocksIn(ov_dispatched[i].audio) : session_of[b] # 0)
    /\ [](\A p \in 1..Len(procs) :
             \A i \in 1..Len(procs[p].audio_queue) :
                 \A b \in BlocksIn(procs[p].audio_queue[i]) : session_of[b] # 0)
    /\ [](WDispatchedBlocks \subseteq WReceivedBlocks)

\* C26's case: a stream was still open when a block arrived with listening off,
\* and an utterance was dispatched
C26_Witness ==
    /\ \E b \in 1..Len(session_of) : session_of[b] = 0
    /\ ov_dispatched # <<>>

====
